---- MODULE Spec2Model ----
(***************************************************************************)
(* Loan lifecycle and copy-count bookkeeping of the library application.   *)
(*                                                                         *)
(* The database (tables books and borrowings, the availability function,   *)
(* the trigger on borrowings and the CHECK constraints on books) is        *)
(* modelled from supabase/migrations; the client operations are modelled   *)
(* from src/stores/borrowingStore.ts.  Every `await` of a database call is *)
(* one atomic step of the calling session, so sessions interleave exactly  *)
(* at the points where the JavaScript handlers yield.                      *)
(*                                                                         *)
(* Time is counted in ticks, TicksPerDay to the day; money in cents.       *)
(***************************************************************************)
EXTENDS Integers, Sequences, FiniteSets, TLC

\* ---------------------------------------------------------------- bounds
MaxCopies == 2    \* largest total_copies of a catalogued book
MaxLoans  == 2    \* largest number of rows of table borrowings
MaxNow    == 1    \* last day of the clock
MaxFineDays == 3  \* last day of the clock where fines are followed
TicksPerDay == 2  \* instants told apart within a day
MaxFaults == 1    \* storage/transport failures injected per behaviour
LoanDays  == 1    \* daysToReturn the callers of borrowBook pass
NProcs    == 2    \* concurrent client sessions

\* ------------------------------------------------------ program constants
FineCentsPerDay == 50     \* calculateFine: overdueDays * 0.5
TotalFallback   == 999    \* approveReturn: total_copies || 999

Books   == {"b1"}
Members == {"m1", "m2"}
Admins  == {"a1"}
Users   == Members \cup Admins
NoUser  == "nobody"        \* a user id with no row in profiles
Borrowers == {"m1"}        \* the accounts that call borrowBook
Targets == {"m1", "a1", NoUser}   \* the userId values staff borrow for
Procs   == 1..NProcs
NULL    == -1              \* SQL NULL of return_date

Outstanding == {"active", "pending_return", "overdue"}
Statuses    == Outstanding \cup {"returned"}

VARIABLES
  migration,   \* which migration's functions are installed: "001" or "008"
  books,       \* table books: book id -> [total_copies, available_copies]
  borrowings,  \* table borrowings: sequence of rows, the row id is the index
  now,         \* the clock
  faults,      \* failures injected so far
  pc,          \* session -> position in the running handler
  loc          \* session -> the running handler's arguments and locals

vars == <<migration, books, borrowings, now, faults, pc, loc>>

\* profiles.role (CHECK (role IN ('admin','librarian','member')))
RoleOf(u) == IF u \in Admins THEN "admin" ELSE "member"

\* a role test that admits every role of profiles.role
IsStaffRole_AnyRole(r) == r \in {"admin", "librarian", "member"}

\* ['admin', 'librarian'].includes(profile?.role || '')
IsStaffRole(r) == r \in {"admin", "librarian"}

Min(a, b) == IF a < b THEN a ELSE b

\* ------------------------------------------------------------- database

\* table books with CHECK (total_copies >= available_copies) alone
BooksCheck_NoFloor(b) == b.total_copies >= b.available_copies

\* CHECK (total_copies >= available_copies), CHECK (available_copies >= 0)
BooksCheck(b) == b.available_copies >= 0 /\ b.total_copies >= b.available_copies

OutstandingCount(bk) ==
  Cardinality({i \in DOMAIN borrowings :
                 borrowings[i].book_id = bk /\ borrowings[i].status \in Outstanding})

ActiveCount(bk) ==
  Cardinality({i \in DOMAIN borrowings :
                 borrowings[i].book_id = bk /\ borrowings[i].status = "active"})

\* an availability test that admits available_count = borrowed_count
is_book_available_Geq(bk) ==
  IF migration = "001"
  THEN books[bk].available_copies >= OutstandingCount(bk)
  ELSE books[bk].available_copies >= ActiveCount(bk)

\* is_book_available(p_book_id): 001 counts the outstanding statuses,
\* 008 counts status = 'active' only.
is_book_available(bk) ==
  IF migration = "001"
  THEN books[bk].available_copies > OutstandingCount(bk)
  ELSE books[bk].available_copies > ActiveCount(bk)

\* update_books_available_on_borrow(), as the change it makes to
\* books.available_copies of the row's book.  old = "none" for TG_OP = INSERT.
update_books_available_on_borrow(old, new) ==
  IF old = "none"
  THEN IF new = "active" THEN -1 ELSE 0
  ELSE IF old \in Outstanding /\ new = "returned" THEN 1
  ELSE IF migration = "001" /\ old = "returned" /\ new \in Outstanding THEN -1
  ELSE IF migration = "008" /\ old = "returned" /\ new = "active" THEN -1
  ELSE 0

\* table books after the trigger ran for a status change old -> new of bk
BooksAfterTrigger(bk, old, new) ==
  [books EXCEPT ![bk].available_copies =
                   @ + update_books_available_on_borrow(old, new)]

\* the statement (and its AFTER trigger) commits only if books' CHECKs hold
TriggerOk(bk, old, new) == BooksCheck(BooksAfterTrigger(bk, old, new)[bk])

\* RLS of INSERT on borrowings.  The member client carries the service key
\* (bypasses RLS); the staff client is an authenticated staff session, which
\* the permissive policy "Staff manage borrowings" admits.
InsertPolicy(clientRole, bk) ==
  \/ clientRole = "service_role"
  \/ clientRole = "staff"
  \/ (clientRole = "owner" /\ is_book_available(bk))

\* profile?.role === 'member' ? supabaseMember : supabase
ClientRole(profile) == IF RoleOf(profile) = "member" THEN "service_role" ELSE "staff"

\* -------------------------------------------------------------- fines

\* a variant that counts a started day as a full one
differenceInDays_RoundUp(later, earlier) ==
  IF later >= earlier
  THEN (later - earlier + TicksPerDay - 1) \div TicksPerDay
  ELSE -((earlier - later + TicksPerDay - 1) \div TicksPerDay)

\* date-fns differenceInDays(later, earlier): the number of full days
\* between the two instants, truncated towards zero
differenceInDays(later, earlier) ==
  IF later >= earlier
  THEN (later - earlier) \div TicksPerDay
  ELSE -((earlier - later) \div TicksPerDay)

\* calculateFine(dueDate)
calculateFine(due) ==
  IF now > due THEN differenceInDays(now, due) * FineCentsPerDay ELSE 0

\* addDays(new Date(), daysToReturn)
addDays(t, days) == t + days * TicksPerDay

\* ---------------------------------------------------------- sessions

IdleLoc == [op |-> "none", book |-> "none", user |-> NoUser,
            due |-> 0, id |-> 0, avail |-> 0, total |-> 0, upd |-> {},
            result |-> "none", pre |-> 0]

Init ==
  /\ migration \in {"001", "008"}
  /\ books \in [Books -> {[total_copies |-> t, available_copies |-> t] : t \in 1..MaxCopies}]
  /\ borrowings = <<>>
  /\ now = 0
  /\ faults = 0
  /\ pc = [p \in Procs |-> "idle"]
  /\ loc = [p \in Procs |-> IdleLoc]

\* what stays of a call once it has ended: which call it was, on which book
\* (when it names one), and how it ended
Outcome(l, res) ==
  [IdleLoc EXCEPT !.op = l.op, !.book = l.book, !.result = res]

\* a storage/transport failure of the database call being made
Fault == faults < MaxFaults /\ faults' = faults + 1

\* the handler ends: it resolves ("ok") or rejects with the error named
Finish(p, res) ==
  /\ pc' = [pc EXCEPT ![p] = "done"]
  /\ loc' = [loc EXCEPT ![p] = Outcome(loc[p], res)]

\* rows that sessions have been admitted to insert but have not inserted yet
PendingInserts == Cardinality({p \in Procs : pc[p] \in {"bb_insert", "cb_insert"}})

CanStartInsert == Len(borrowings) + PendingInserts < MaxLoans

Row(u, bk, due) ==
  [user_id |-> u, book_id |-> bk, due_date |-> due, return_date |-> NULL,
   status |-> "active", fine_amount |-> 0]

\* ------------------------------------------------------------ borrowBook

\* borrowBook(bookId, userId, daysToReturn) up to its availability check:
\* rpc('is_book_available'), then the informative select of the book, whose
\* result only feeds a console warning.  Callers pass profile.id as userId.
borrowBook_check(p, actor, bk, days) ==
  /\ pc[p] = "idle"
  /\ CanStartInsert
  /\   LET l == [IdleLoc EXCEPT !.op = "borrowBook", !.book = bk,
                                !.user = actor, !.due = days,
                                !.pre = books[bk].available_copies]
       IN \/ /\ ~is_book_available(bk)
             /\ pc' = [pc EXCEPT ![p] = "done"]
             /\ loc' = [loc EXCEPT ![p] = Outcome(l, "ItemUnavailable")]
          \/ /\ is_book_available(bk)
             /\ pc' = [pc EXCEPT ![p] = "bb_insert"]
             /\ loc' = [loc EXCEPT ![p] = l]
  /\ UNCHANGED <<migration, books, borrowings, now, faults>>

borrowBook(p) ==
  \E actor \in Borrowers, bk \in Books, days \in {LoanDays} :
    borrowBook_check(p, actor, bk, days)

\* the insert of the borrowing row (status 'active'); its AFTER INSERT
\* trigger decrements available_copies in the same statement
borrowBook_insert(p) ==
  /\ pc[p] = "bb_insert"
  /\ LET bk == loc[p].book
         row == Row(loc[p].user, bk, addDays(now, loc[p].due))
     IN \/ /\ ~(InsertPolicy(ClientRole(loc[p].user), bk) /\ TriggerOk(bk, "none", "active"))
           /\ Finish(p, "ConstraintError")
           /\ UNCHANGED <<books, borrowings>>
        \/ /\ InsertPolicy(ClientRole(loc[p].user), bk)
           /\ TriggerOk(bk, "none", "active")
           /\ borrowings' = Append(borrowings, row)
           /\ books' = BooksAfterTrigger(bk, "none", "active")
           /\ pc' = [pc EXCEPT ![p] = "bb_read"]
           /\ loc' = [loc EXCEPT ![p].id = Len(borrowings) + 1]
  /\ UNCHANGED <<migration, now, faults>>

\* "Decrement available copies": the select of the current count
borrowBook_read(p) ==
  /\ pc[p] = "bb_read"
  /\ LET cur == books[loc[p].book].available_copies
     IN \/ /\ cur > 0
           /\ pc' = [pc EXCEPT ![p] = "bb_write"]
           /\ loc' = [loc EXCEPT ![p].avail = cur]
        \/ /\ ~(cur > 0)
           /\ Finish(p, "ok")
  /\ UNCHANGED <<migration, books, borrowings, now, faults>>

\* the write of the count read, minus one; a failure is only logged
borrowBook_write(p) ==
  /\ pc[p] = "bb_write"
  /\ LET bk == loc[p].book
         nb == [books EXCEPT ![bk].available_copies = loc[p].avail - 1]
     IN books' = IF BooksCheck(nb[bk]) THEN nb ELSE books
  /\ Finish(p, "ok")
  /\ UNCHANGED <<migration, borrowings, now, faults>>

\* ------------------------------------------------- createBorrowingForUser

\* a staff path that does not look up the target's profile
createBorrowingForUser_check_AnyTarget(p, actor, bk, target, dueDate) ==
  /\ pc[p] = "idle"
  /\ CanStartInsert
  /\   LET l == [IdleLoc EXCEPT !.op = "createBorrowingForUser", !.book = bk, !.user = target,
                                !.due = dueDate,
                                !.pre = books[bk].available_copies]
           end(res) == /\ pc' = [pc EXCEPT ![p] = "done"]
                       /\ loc' = [loc EXCEPT ![p] = Outcome(l, res)]
       IN \/ /\ ~IsStaffRole(RoleOf(actor))
             /\ end("Forbidden")
          \/ /\ IsStaffRole(RoleOf(actor))
             /\ ~is_book_available(bk)
             /\ end("ItemUnavailable")
          \/ /\ IsStaffRole(RoleOf(actor))
             /\ is_book_available(bk)
             /\ pc' = [pc EXCEPT ![p] = "cb_insert"]
             /\ loc' = [loc EXCEPT ![p] = l]
  /\ UNCHANGED <<migration, books, borrowings, now, faults>>

\* createBorrowingForUser(bookId, userId, dueDate) up to the insert: the role
\* check, rpc('is_book_available'), and the select of the target profile.
\* BorrowingForm's date picker admits today and later; the wrapper below
\* passes today.
createBorrowingForUser_check(p, actor, bk, target, dueDate) ==
  /\ pc[p] = "idle"
  /\ CanStartInsert
  /\   LET l == [IdleLoc EXCEPT !.op = "createBorrowingForUser", !.book = bk, !.user = target,
                                !.due = dueDate,
                                !.pre = books[bk].available_copies]
           end(res) == /\ pc' = [pc EXCEPT ![p] = "done"]
                       /\ loc' = [loc EXCEPT ![p] = Outcome(l, res)]
       IN \/ /\ ~IsStaffRole(RoleOf(actor))
             /\ end("Forbidden")
          \/ /\ IsStaffRole(RoleOf(actor))
             /\ ~is_book_available(bk)
             /\ end("ItemUnavailable")
          \/ /\ IsStaffRole(RoleOf(actor))
             /\ is_book_available(bk)
             /\ (target \notin Users \/ RoleOf(target) # "member")
             /\ end("UserInvalid")
          \/ /\ IsStaffRole(RoleOf(actor))
             /\ is_book_available(bk)
             /\ target \in Users
             /\ RoleOf(target) = "member"
             /\ pc' = [pc EXCEPT ![p] = "cb_insert"]
             /\ loc' = [loc EXCEPT ![p] = l]
  /\ UNCHANGED <<migration, books, borrowings, now, faults>>

createBorrowingForUser(p) ==
  \E actor \in Users, bk \in Books, target \in Targets :
    createBorrowingForUser_check(p, actor, bk, target, now)

\* the insert through the staff client, with its AFTER INSERT trigger
createBorrowingForUser_insert(p) ==
  /\ pc[p] = "cb_insert"
  /\ LET bk == loc[p].book
         row == Row(loc[p].user, bk, loc[p].due)
     IN \/ /\ ~(InsertPolicy("staff", bk) /\ TriggerOk(bk, "none", "active"))
           /\ Finish(p, "ConstraintError")
           /\ UNCHANGED <<books, borrowings>>
        \/ /\ InsertPolicy("staff", bk)
           /\ TriggerOk(bk, "none", "active")
           /\ borrowings' = Append(borrowings, row)
           /\ books' = BooksAfterTrigger(bk, "none", "active")
           /\ pc' = [pc EXCEPT ![p] = "cb_read"]
           /\ loc' = [loc EXCEPT ![p].id = Len(borrowings) + 1]
  /\ UNCHANGED <<migration, now, faults>>

\* a staff path that leaves the count to the trigger
createBorrowingForUser_read_TriggerOnly(p) ==
  /\ pc[p] = "cb_read"
  /\ Finish(p, "ok")
  /\ UNCHANGED <<migration, books, borrowings, now, faults>>

createBorrowingForUser_read(p) ==
  /\ pc[p] = "cb_read"
  /\ LET cur == books[loc[p].book].available_copies
     IN \/ /\ cur > 0
           /\ pc' = [pc EXCEPT ![p] = "cb_write"]
           /\ loc' = [loc EXCEPT ![p].avail = cur]
        \/ /\ ~(cur > 0)
           /\ Finish(p, "ok")
  /\ UNCHANGED <<migration, books, borrowings, now, faults>>

createBorrowingForUser_write(p) ==
  /\ pc[p] = "cb_write"
  /\ LET bk == loc[p].book
         nb == [books EXCEPT ![bk].available_copies = loc[p].avail - 1]
     IN books' = IF BooksCheck(nb[bk]) THEN nb ELSE books
  /\ Finish(p, "ok")
  /\ UNCHANGED <<migration, borrowings, now, faults>>

\* --------------------------------------------------------- requestReturn

\* requestReturn(borrowingId) up to its update: the select of the row and
\* the three checks, in the code's order
requestReturn_read(p, actor, id) ==
  /\ pc[p] = "idle"
  /\   LET l == [IdleLoc EXCEPT !.op = "requestReturn", !.id = id]
           end(res) == /\ pc' = [pc EXCEPT ![p] = "done"]
                       /\ loc' = [loc EXCEPT ![p] = Outcome(l, res)]
       IN \/ /\ id \notin DOMAIN borrowings
             /\ end("NotFound")
          \/ /\ id \in DOMAIN borrowings
             /\ borrowings[id].status # "active"
             /\ end("InvalidState")
          \/ /\ id \in DOMAIN borrowings
             /\ borrowings[id].status = "active"
             /\ borrowings[id].user_id # actor
             /\ end("NotOwner")
          \/ /\ id \in DOMAIN borrowings
             /\ borrowings[id].status = "active"
             /\ borrowings[id].user_id = actor
             /\ pc' = [pc EXCEPT ![p] = "rr_write"]
             /\ loc' = [loc EXCEPT ![p] = [l EXCEPT !.book = borrowings[id].book_id]]
  /\ UNCHANGED <<migration, books, borrowings, now, faults>>

\* a row id, or the one id past the table (no such row)
Ids == 1..(Len(borrowings) + 1)

requestReturn(p) ==
  \E actor \in Users, id \in Ids : requestReturn_read(p, actor, id)

\* update({ status: 'pending_return' }).eq('id', borrowingId), with the
\* AFTER UPDATE OF status trigger
requestReturn_write(p) ==
  /\ pc[p] = "rr_write"
  /\ LET id == loc[p].id
         bk == borrowings[id].book_id
         old == borrowings[id].status
     IN \/ /\ ~TriggerOk(bk, old, "pending_return")
           /\ Finish(p, "ConstraintError")
           /\ UNCHANGED <<books, borrowings>>
        \/ /\ TriggerOk(bk, old, "pending_return")
           /\ borrowings' = [borrowings EXCEPT ![id].status = "pending_return"]
           /\ books' = BooksAfterTrigger(bk, old, "pending_return")
           /\ Finish(p, "ok")
  /\ UNCHANGED <<migration, now, faults>>

\* --------------------------------------------- approveReturn, returnBook

\* total_copies || 999: a total of 0 is falsy
TotalOrFallback(total) == IF total = 0 THEN TotalFallback ELSE total

\* Math.min(newAvailableCopies, totalCopies)
finalAvailable(avail, total) == Min(avail + 1, TotalOrFallback(total))

\* approveReturn(borrowingId) up to its update of the row: the role check,
\* the select of the row joined with its book, and the status check.
\* op names the entry point: returnBook awaits approveReturn.
approveReturn_read(p, op, actor, id) ==
  /\ pc[p] = "idle"
  /\   LET l == [IdleLoc EXCEPT !.op = op, !.id = id]
           end(res) == /\ pc' = [pc EXCEPT ![p] = "done"]
                       /\ loc' = [loc EXCEPT ![p] = Outcome(l, res)]
       IN \/ /\ ~IsStaffRole(RoleOf(actor))
             /\ end("Forbidden")
          \/ /\ IsStaffRole(RoleOf(actor))
             /\ id \notin DOMAIN borrowings
             /\ end("NotFound")
          \/ /\ IsStaffRole(RoleOf(actor))
             /\ id \in DOMAIN borrowings
             /\ borrowings[id].status # "pending_return"
             /\ end("InvalidState")
          \/ /\ IsStaffRole(RoleOf(actor))
             /\ id \in DOMAIN borrowings
             /\ borrowings[id].status = "pending_return"
             /\ pc' = [pc EXCEPT ![p] = "ar_update"]
             /\ loc' = [loc EXCEPT ![p] =
                          [l EXCEPT !.book = borrowings[id].book_id,
                                    !.due = borrowings[id].due_date,
                                    !.avail = books[borrowings[id].book_id].available_copies,
                                    !.total = books[borrowings[id].book_id].total_copies,
                                    !.pre = books[borrowings[id].book_id].available_copies]]
  /\ UNCHANGED <<migration, books, borrowings, now, faults>>

approveReturn(p) ==
  \E actor \in Users, id \in Ids : approveReturn_read(p, "approveReturn", actor, id)

\* returnBook(borrowingId): "for admin direct returns (treat as approve)"
returnBook(p) ==
  \E actor \in Users, id \in Ids : approveReturn_read(p, "returnBook", actor, id)

\* update({ return_date, status: 'returned', fine_amount }).eq('id', ...),
\* with the AFTER UPDATE OF status trigger
approveReturn_update(p) ==
  /\ pc[p] = "ar_update"
  /\ LET id == loc[p].id
         bk == borrowings[id].book_id
         old == borrowings[id].status
     IN \/ /\ ~TriggerOk(bk, old, "returned")
           /\ Finish(p, "ConstraintError")
           /\ UNCHANGED <<books, borrowings>>
        \/ /\ TriggerOk(bk, old, "returned")
           /\ borrowings' = [borrowings EXCEPT ![id].return_date = now,
                                               ![id].status = "returned",
                                               ![id].fine_amount = calculateFine(loc[p].due)]
           /\ books' = BooksAfterTrigger(bk, old, "returned")
           /\ pc' = [pc EXCEPT ![p] = "ar_book"]
           /\ loc' = loc
  /\ UNCHANGED <<migration, now, faults>>

\* "Increment available copies": the write of the count read with the row,
\* plus one, capped by the total read with it; a failure is only logged
approveReturn_book(p) ==
  /\ pc[p] = "ar_book"
  /\ LET bk == loc[p].book
         nb == [books EXCEPT ![bk].available_copies =
                               finalAvailable(loc[p].avail, loc[p].total)]
     IN books' = IF BooksCheck(nb[bk]) THEN nb ELSE books
  /\ Finish(p, "ok")
  /\ UNCHANGED <<migration, borrowings, now, faults>>

\* ----------------------------------------------- updateOverdueBorrowings

\* RLS of SELECT on borrowings for the plain client: an admin's session is
\* staff; a member-id login carries no database session and sees no row
SelectPolicy(actor) == IsStaffRole(RoleOf(actor))

\* a select that takes the rows already marked overdue as well
updateOverdueBorrowings_select_Marked(p, actor) ==
  /\ pc[p] = "idle"
  /\   LET l == [IdleLoc EXCEPT !.op = "updateOverdueBorrowings"]
           rows == {i \in DOMAIN borrowings :
                      /\ SelectPolicy(actor)
                      /\ borrowings[i].status \in {"active", "overdue"}
                      /\ borrowings[i].due_date < now}
           updates == {[id |-> i, fine_amount |-> calculateFine(borrowings[i].due_date)] :
                         i \in rows}
       IN \/ /\ rows = {}
             /\ pc' = [pc EXCEPT ![p] = "done"]
             /\ loc' = [loc EXCEPT ![p] = Outcome(l, "ok")]
          \/ /\ rows # {}
             /\ pc' = [pc EXCEPT ![p] = "uo_update"]
             /\ loc' = [loc EXCEPT ![p] = [l EXCEPT !.upd = updates]]
  /\ UNCHANGED <<migration, books, borrowings, now, faults>>

\* the select of the active rows past due, and the updates computed from it
updateOverdueBorrowings_select(p, actor) ==
  /\ pc[p] = "idle"
  /\   LET l == [IdleLoc EXCEPT !.op = "updateOverdueBorrowings"]
           rows == {i \in DOMAIN borrowings :
                      /\ SelectPolicy(actor)
                      /\ borrowings[i].status = "active"
                      /\ borrowings[i].due_date < now}
           updates == {[id |-> i, fine_amount |-> calculateFine(borrowings[i].due_date)] :
                         i \in rows}
       IN \/ /\ rows = {}
             /\ pc' = [pc EXCEPT ![p] = "done"]
             /\ loc' = [loc EXCEPT ![p] = Outcome(l, "ok")]
          \/ /\ rows # {}
             /\ pc' = [pc EXCEPT ![p] = "uo_update"]
             /\ loc' = [loc EXCEPT ![p] = [l EXCEPT !.upd = updates]]
  /\ UNCHANGED <<migration, books, borrowings, now, faults>>

updateOverdueBorrowings(p) ==
  \E actor \in Users : updateOverdueBorrowings_select(p, actor)

\* one pass of the for loop: update({ status, fine_amount }).eq('id', ...).
\* The result of the update is not looked at.
updateOverdueBorrowings_update(p) ==
  /\ pc[p] = "uo_update"
  /\ \E u \in loc[p].upd :
       LET id == u.id
           bk == borrowings[id].book_id
           old == borrowings[id].status
           rest == loc[p].upd \ {u}
       IN /\ \/ /\ ~TriggerOk(bk, old, "overdue")
                /\ UNCHANGED <<books, borrowings>>
             \/ /\ TriggerOk(bk, old, "overdue")
                /\ borrowings' = [borrowings EXCEPT ![id].status = "overdue",
                                                    ![id].fine_amount = u.fine_amount]
                /\ books' = BooksAfterTrigger(bk, old, "overdue")
          /\ IF rest = {}
             THEN Finish(p, "ok")
             ELSE /\ pc' = pc
                  /\ loc' = [loc EXCEPT ![p].upd = rest]
  /\ UNCHANGED <<migration, now, faults>>

\* ------------------------------------------------------ storage failures

\* The database call a session is about to make fails (connection loss, a
\* timeout): supabase-js returns { error } and the handler takes the branch
\* its code has for that call.

StartFailed(p, op, res) ==
  /\ pc[p] = "idle"
  /\ pc' = [pc EXCEPT ![p] = "done"]
  /\ loc' = [loc EXCEPT ![p] = Outcome([IdleLoc EXCEPT !.op = op], res)]

\* borrowBook: availError and borrowingError are thrown; fetchBookError and
\* updateError are logged and the call still resolves
borrowBook_fail(p) ==
  /\ Fault
  /\ \/ StartFailed(p, "borrowBook", "StorageError")
     \/ pc[p] = "bb_insert" /\ Finish(p, "StorageError")
     \/ pc[p] = "bb_read" /\ Finish(p, "ok")
     \/ pc[p] = "bb_write" /\ Finish(p, "ok")
  /\ UNCHANGED <<migration, books, borrowings, now>>

\* createBorrowingForUser: the same branches; the first call is made only
\* after the role check passed
createBorrowingForUser_fail(p) ==
  /\ Fault
  /\ \/ StartFailed(p, "createBorrowingForUser", "StorageError")
     \/ pc[p] = "cb_insert" /\ Finish(p, "StorageError")
     \/ pc[p] = "cb_read" /\ Finish(p, "ok")
     \/ pc[p] = "cb_write" /\ Finish(p, "ok")
  /\ UNCHANGED <<migration, books, borrowings, now>>

\* requestReturn: borrowingError and updateError are thrown
requestReturn_fail(p) ==
  /\ Fault
  /\ \/ StartFailed(p, "requestReturn", "StorageError")
     \/ pc[p] = "rr_write" /\ Finish(p, "StorageError")
  /\ UNCHANGED <<migration, books, borrowings, now>>

\* approveReturn: borrowingError and updateBorrowingError are thrown;
\* bookUpdateError is logged and the call still resolves
approveReturn_fail(p) ==
  /\ Fault
  /\ \/ \E op \in {"approveReturn", "returnBook"} : StartFailed(p, op, "StorageError")
     \/ pc[p] = "ar_update" /\ Finish(p, "StorageError")
     \/ pc[p] = "ar_book" /\ Finish(p, "ok")
  /\ UNCHANGED <<migration, books, borrowings, now>>

\* updateOverdueBorrowings: a failed select is caught and logged; the result
\* of an update is not looked at, so the loop goes on
updateOverdueBorrowings_fail(p) ==
  /\ Fault
  /\ \/ StartFailed(p, "updateOverdueBorrowings", "ok")
     \/ /\ pc[p] = "uo_update"
        /\ \E u \in loc[p].upd :
             IF loc[p].upd = {u}
             THEN Finish(p, "ok")
             ELSE /\ pc' = pc
                  /\ loc' = [loc EXCEPT ![p].upd = @ \ {u}]
  /\ UNCHANGED <<migration, books, borrowings, now>>

\* ------------------------------------------------------------- the rest

\* the caller has seen the outcome; the session is free for the next call
Return(p) ==
  /\ pc[p] = "done"
  /\ pc' = [pc EXCEPT ![p] = "idle"]
  /\ loc' = [loc EXCEPT ![p] = IdleLoc]
  /\ UNCHANGED <<migration, books, borrowings, now, faults>>

\* a day passes
Tick ==
  /\ now + TicksPerDay <= MaxNow * TicksPerDay
  /\ now' = now + TicksPerDay
  /\ UNCHANGED <<migration, books, borrowings, faults, pc, loc>>

\* an instant passes, up to the instant `last`
Clock(last) ==
  /\ now < last
  /\ now' = now + 1
  /\ UNCHANGED <<migration, books, borrowings, faults, pc, loc>>

\* ------------------------------------------------- catalog management

\* every book id has its row in table books
Catalogued == DOMAIN books = Books

\* RLS "Staff manage books" ... FOR ALL USING (is_staff())
BooksPolicy(actor) == IsStaffRole(RoleOf(actor))

\* the counts BookForm submits: total_copies from 1 up (min={1}),
\* available_copies from 0 up (min={0})
FormTotals == 1..MaxCopies
FormAvailables == 0..MaxCopies

\* addBook(book): insert(book).select().single(); a row the policy or a
\* CHECK refuses is an error, which is thrown
addBook_insert(p, actor, bk, total, avail) ==
  /\ pc[p] = "idle"
  /\ bk \notin DOMAIN books
  /\ LET l == [IdleLoc EXCEPT !.op = "addBook", !.book = bk]
         row == [total_copies |-> total, available_copies |-> avail]
     IN \/ /\ ~(BooksPolicy(actor) /\ BooksCheck(row))
           /\ books' = books
           /\ loc' = [loc EXCEPT ![p] = Outcome(l, "ConstraintError")]
        \/ /\ BooksPolicy(actor)
           /\ BooksCheck(row)
           /\ books' = [b \in DOMAIN books \cup {bk} |->
                          IF b = bk THEN row ELSE books[b]]
           /\ loc' = [loc EXCEPT ![p] = Outcome(l, "ok")]
  /\ pc' = [pc EXCEPT ![p] = "done"]
  /\ UNCHANGED <<migration, borrowings, now, faults>>

addBook(p) ==
  \E actor \in Users, bk \in Books, total \in FormTotals, avail \in FormAvailables :
    addBook_insert(p, actor, bk, total, avail)

\* updateBook(id, updates): update({ ...updates }).eq('id', id).select()
\* .single().  BookForm submits both counts.  A row the policy hides is not
\* updated and single() finds no row; a CHECK that fails aborts the update.
updateBook_update(p, actor, bk, total, avail) ==
  /\ pc[p] = "idle"
  /\ bk \in DOMAIN books
  /\ LET l == [IdleLoc EXCEPT !.op = "updateBook", !.book = bk,
                              !.pre = books[bk].available_copies]
         row == [total_copies |-> total, available_copies |-> avail]
     IN \/ /\ ~BooksPolicy(actor)
           /\ books' = books
           /\ loc' = [loc EXCEPT ![p] = Outcome(l, "NotFound")]
        \/ /\ BooksPolicy(actor)
           /\ ~BooksCheck(row)
           /\ books' = books
           /\ loc' = [loc EXCEPT ![p] = Outcome(l, "ConstraintError")]
        \/ /\ BooksPolicy(actor)
           /\ BooksCheck(row)
           /\ books' = [books EXCEPT ![bk] = row]
           /\ loc' = [loc EXCEPT ![p] = Outcome(l, "ok")]
  /\ pc' = [pc EXCEPT ![p] = "done"]
  /\ UNCHANGED <<migration, borrowings, now, faults>>

updateBook(p) ==
  \E actor \in Users, bk \in Books, total \in FormTotals, avail \in FormAvailables :
    updateBook_update(p, actor, bk, total, avail)

\* the rows of borrowings left when book bk's row is deleted:
\* book_id uuid REFERENCES books(id) ON DELETE CASCADE
OnDeleteCascade(bk) == SelectSeq(borrowings, LAMBDA r : r.book_id # bk)

\* deleteBook(id): delete().eq('id', id).  A row the policy hides is not
\* deleted, which is no error.
deleteBook_delete(p, actor, bk) ==
  /\ pc[p] = "idle"
  /\ bk \in DOMAIN books
  /\ \/ /\ ~BooksPolicy(actor)
        /\ UNCHANGED <<books, borrowings>>
     \/ /\ BooksPolicy(actor)
        /\ books' = [b \in DOMAIN books \ {bk} |-> books[b]]
        /\ borrowings' = OnDeleteCascade(bk)
  /\ pc' = [pc EXCEPT ![p] = "done"]
  /\ loc' = [loc EXCEPT ![p] =
               Outcome([IdleLoc EXCEPT !.op = "deleteBook", !.book = bk], "ok")]
  /\ UNCHANGED <<migration, now, faults>>

deleteBook(p) ==
  \E actor \in Users, bk \in Books : deleteBook_delete(p, actor, bk)

\* the catalog calls of a session, and its return to the page
CatalogNext(p) ==
  \/ addBook(p)
  \/ updateBook(p)
  \/ deleteBook(p)
  \/ Return(p)

ProcNext(p) ==
  \/ borrowBook(p)
  \/ borrowBook_insert(p)
  \/ borrowBook_read(p)
  \/ borrowBook_write(p)
  \/ createBorrowingForUser(p)
  \/ createBorrowingForUser_insert(p)
  \/ createBorrowingForUser_read(p)
  \/ createBorrowingForUser_write(p)
  \/ requestReturn(p)
  \/ requestReturn_write(p)
  \/ approveReturn(p)
  \/ returnBook(p)
  \/ approveReturn_update(p)
  \/ approveReturn_book(p)
  \/ updateOverdueBorrowings(p)
  \/ updateOverdueBorrowings_update(p)
  \/ Return(p)

ProcFail(p) ==
  \/ borrowBook_fail(p)
  \/ createBorrowingForUser_fail(p)
  \/ requestReturn_fail(p)
  \/ approveReturn_fail(p)
  \/ updateOverdueBorrowings_fail(p)

\* the steps of creating a loan, by either path
CreateLoanNext(p) ==
  \/ borrowBook(p)
  \/ borrowBook_insert(p)
  \/ borrowBook_read(p)
  \/ borrowBook_write(p)
  \/ createBorrowingForUser(p)
  \/ createBorrowingForUser_insert(p)
  \/ createBorrowingForUser_read(p)
  \/ createBorrowingForUser_write(p)

\* concurrent sessions over a reliable store
Next == Tick \/ \E p \in Procs : ProcNext(p)

\* one session, over a store whose calls may fail
NextSeq == Tick \/ ProcNext(1) \/ ProcFail(1)

\* every session makes one createLoan call, all at once, on a fresh catalog
NextRace == \E p \in Procs : CreateLoanNext(p)

\* one session over a reliable store, the clock followed instant by instant
\* for MaxFineDays days and a part of the next
NextFine == Clock(MaxFineDays * TicksPerDay + 1) \/ ProcNext(1)

\* the steps of staff lending and of the overdue sweep
SweepNext(p) ==
  \/ createBorrowingForUser(p)
  \/ createBorrowingForUser_insert(p)
  \/ createBorrowingForUser_read(p)
  \/ createBorrowingForUser_write(p)
  \/ updateOverdueBorrowings(p)
  \/ updateOverdueBorrowings_update(p)
  \/ Return(p)

\* concurrent sessions that lend and sweep, the clock followed instant by
\* instant
NextSweep == Clock(MaxNow * TicksPerDay) \/ \E p \in Procs : SweepNext(p)

\* one session over a reliable store that lends, returns and manages the
\* catalog; the loan handlers are followed while every book has its row
NextCatalog == Tick \/ (Catalogued /\ ProcNext(1)) \/ CatalogNext(1)

Spec == Init /\ [][Next]_vars

SpecFine == Init /\ [][NextFine]_vars

SpecSweep == Init /\ [][NextSweep]_vars

SpecSeq == Init /\ [][NextSeq]_vars

SpecRace == Init /\ [][NextRace]_vars

SpecCatalog == Init /\ [][NextCatalog]_vars

\* ================================================================ claims

CreateOps == {"borrowBook", "createBorrowingForUser"}
ReturnOps == {"approveReturn", "returnBook"}

\* session p makes a createLoan call for book bk: a member for themselves,
\* or staff on behalf of a member
CreateLoanCall(p, bk) ==
  \/ \E actor \in Borrowers : borrowBook_check(p, actor, bk, LoanDays)
  \/ \E actor \in Admins, target \in Members :
       createBorrowingForUser_check(p, actor, bk, target, now)

\* session p's createLoan call ends with this step
CreateLoanEnds(p) ==
  /\ pc[p] \in {"bb_insert", "bb_read", "bb_write", "cb_insert", "cb_read", "cb_write"}
  /\ pc'[p] = "done"

\* ---------------------------------------------------------------- C1
\* C1: in every reachable state, whatever the interleaving of the loan
\* operations, every book has 0 <= available_copies <= total_copies
\* (0 <= copiesOnLoan <= totalCopies).
C1_CopiesWithinTotal ==
  \A bk \in Books :
    /\ 0 <= books[bk].available_copies
    /\ books[bk].available_copies <= books[bk].total_copies

\* a book that has been lent and given back while another loan is out
C1_Witness ==
  \E bk \in Books, i, j \in DOMAIN borrowings :
    /\ borrowings[i].book_id = bk /\ borrowings[i].status = "returned"
    /\ borrowings[j].book_id = bk /\ borrowings[j].status \in Outstanding
    /\ books[bk].available_copies < books[bk].total_copies

\* ---------------------------------------------------------------- C2
\* C2: N sessions call createLoan at once on a book with k free copies;
\* when all have ended, exactly min(N,k) succeeded, the others failed with
\* ItemUnavailable, and the book has min(N,k) fewer copies available.
C2_RaceOutcome ==
  \A bk \in Books :
    LET k == books[bk].total_copies
        n == Min(NProcs, k)
        ended(res) == Cardinality({p \in Procs : loc[p].result = res})
    IN (\A p \in Procs : /\ pc[p] = "done"
                         /\ loc[p].op \in CreateOps
                         /\ loc[p].book = bk
                         /\ loc[p].result \notin {"Forbidden", "UserInvalid"})
       => /\ ended("ok") = n
          /\ ended("ItemUnavailable") = NProcs - n
          /\ books[bk].available_copies = k - n

\* ---------------------------------------------------------------- C3
\* C3: in every reachable state, a book has at most total_copies loans
\* whose status is active, pending_return or overdue.
C3_OutstandingWithinTotal ==
  \A bk \in Books : OutstandingCount(bk) <= books[bk].total_copies

\* ---------------------------------------------------------------- C4
\* C4: a createLoan call that runs alone on a book with a free copy
\* (available_copies > 0, fewer outstanding loans than total_copies) is
\* accepted, inserts its loan, and ends with available_copies exactly one
\* lower than when it was called.
C4_CreateLoanAlone ==
  [][\A p \in Procs :
       /\ \A bk \in Books :
            (/\ CreateLoanCall(p, bk)
             /\ books[bk].available_copies > 0
             /\ OutstandingCount(bk) < books[bk].total_copies)
              => pc'[p] \in {"bb_insert", "cb_insert"}
       /\ (CreateLoanEnds(p) /\ faults' = 0)
            => /\ loc'[p].result = "ok"
               /\ books'[loc[p].book].available_copies = loc[p].pre - 1]_vars

\* ---------------------------------------------------------------- C5
\* C5: a createLoan call for a book with no free copy (available_copies = 0)
\* ends at once with ItemUnavailable, inserts no loan, and leaves the
\* book's counts unchanged.
C5_NoFreeCopy ==
  [][\A p \in Procs, bk \in Books :
       (CreateLoanCall(p, bk) /\ books[bk].available_copies = 0)
         => /\ pc'[p] = "done"
            /\ loc'[p].result = "ItemUnavailable"
            /\ borrowings' = borrowings
            /\ books' = books]_vars

\* a call was refused for a book whose copies are all out
C5_Witness ==
  \E p \in Procs :
    /\ pc[p] = "done"
    /\ loc[p].op \in CreateOps
    /\ loc[p].result = "ItemUnavailable"
    /\ books[loc[p].book].available_copies = 0
    /\ OutstandingCount(loc[p].book) > 0

\* ---------------------------------------------------------------- C6
\* C6: when a createLoan call ends, however it ends (storage failures
\* included), either it inserted its loan and available_copies is one lower
\* than at the call, or it inserted nothing and the count is as at the call.
C6_ReserveWithInsert ==
  [][\A p \in Procs :
       CreateLoanEnds(p)
         => LET delta == books'[loc[p].book].available_copies - loc[p].pre
            IN \/ loc[p].id # 0 /\ delta = -1
               \/ loc[p].id = 0 /\ delta = 0]_vars

\* ---------------------------------------------------------------- C7
\* C7: approveReturn by staff on a loan that is active, pending_return or
\* overdue is accepted, sets status returned, return_date = now and the
\* fine for its due date, and ends with one more copy available.
C7_ApproveAnyOutstanding ==
  [][\A p \in Procs :
       /\ \A actor \in Admins, id \in DOMAIN borrowings :
            (approveReturn_read(p, "approveReturn", actor, id)
               /\ borrowings[id].status \in Outstanding)
              => pc'[p] = "ar_update"
       /\ (/\ pc[p] = "ar_update" /\ pc'[p] # "ar_update"
           /\ loc[p].op = "approveReturn" /\ faults' = 0)
            => /\ borrowings'[loc[p].id].status = "returned"
               /\ borrowings'[loc[p].id].return_date = now
               /\ borrowings'[loc[p].id].fine_amount
                    = calculateFine(borrowings[loc[p].id].due_date)
       /\ (/\ pc[p] = "ar_book" /\ pc'[p] # "ar_book"
           /\ loc[p].op = "approveReturn" /\ faults' = 0)
            => /\ loc'[p].result = "ok"
               /\ books'[loc[p].book].available_copies = loc[p].pre + 1]_vars

\* ---------------------------------------------------------------- C8
\* C8: returnBook by staff on an active loan takes it to returned directly,
\* with approveReturn's effect on return_date, fine and count.
C8_DirectReturnFromActive ==
  [][\A p \in Procs :
       /\ \A actor \in Admins, id \in DOMAIN borrowings :
            (approveReturn_read(p, "returnBook", actor, id)
               /\ borrowings[id].status = "active")
              => pc'[p] = "ar_update"
       /\ (/\ pc[p] = "ar_update" /\ pc'[p] # "ar_update"
           /\ loc[p].op = "returnBook" /\ faults' = 0)
            => /\ borrowings[loc[p].id].status = "active"
               /\ borrowings'[loc[p].id].status = "returned"
               /\ borrowings'[loc[p].id].return_date = now
               /\ borrowings'[loc[p].id].fine_amount
                    = calculateFine(borrowings[loc[p].id].due_date)]_vars

\* ---------------------------------------------------------------- C9
\* C9: approveReturn and returnBook called by a member end at once with
\* Forbidden, whatever the loan, and change no loan and no count.
C9_MemberForbidden ==
  [][\A p \in Procs, op \in ReturnOps, actor \in Members, id \in Ids :
       approveReturn_read(p, op, actor, id)
         => /\ pc'[p] = "done"
            /\ loc'[p].result = "Forbidden"
            /\ borrowings' = borrowings
            /\ books' = books]_vars

\* a member's approval was refused while a return request is pending
C9_Witness ==
  \E p \in Procs, i \in DOMAIN borrowings :
    /\ pc[p] = "done"
    /\ loc[p].op \in ReturnOps
    /\ loc[p].result = "Forbidden"
    /\ borrowings[i].status = "pending_return"

\* --------------------------------------------------------------- C10
\* C10: returned is terminal: no step changes the status of a returned
\* loan, and approveReturn on a returned loan ends with InvalidState.
C10_ReturnedIsTerminal ==
  [][/\ \A id \in DOMAIN borrowings :
          borrowings[id].status = "returned" => borrowings'[id].status = "returned"
     /\ \A p \in Procs, op \in ReturnOps, actor \in Admins, id \in DOMAIN borrowings :
          (approveReturn_read(p, op, actor, id) /\ borrowings[id].status = "returned")
            => (pc'[p] = "done" /\ loc'[p].result = "InvalidState")]_vars

\* --------------------------------------------------------------- C11
\* C11: a copy is released exactly once per loan: the step that takes a
\* loan to returned does so for a loan not returned before and adds one to
\* available_copies, a repeated approval of a returned loan adds nothing,
\* and the call's later write of the count changes it no further, whatever
\* runs concurrently.
C11_ReleasedOnce ==
  [][\A p \in Procs :
       /\ (pc[p] = "ar_update" /\ pc'[p] # "ar_update")
            => LET id == loc[p].id
                   bk == loc[p].book
               IN IF /\ borrowings[id].status # "returned"
                     /\ borrowings'[id].status = "returned"
                  THEN /\ borrowings[id].return_date = NULL
                       /\ books'[bk].available_copies = books[bk].available_copies + 1
                  ELSE books'[bk] = books[bk]
       /\ (pc[p] = "ar_book" /\ pc'[p] # "ar_book") => books' = books]_vars

\* --------------------------------------------------------------- C12
\* C12: round trip: when the approval of a book's first and only loan ends,
\* nothing else having changed the book's count, available_copies is back
\* at its value before the loan (total_copies, the count of a fresh book).
C12_RoundTrip ==
  [][\A p \in Procs :
       (/\ pc[p] = "ar_book" /\ pc'[p] = "done"
        /\ faults' = 0
        /\ Len(borrowings) = 1)
         => books'[loc[p].book].available_copies
              = books'[loc[p].book].total_copies]_vars

\* --------------------------------------------------------------- C13
\* C13: requestReturn called by anyone but the loan's borrower ends with
\* NotOwner and leaves the loan as it is.
C13_NonBorrowerNotOwner ==
  [][\A p \in Procs, actor \in Users, id \in DOMAIN borrowings :
       (requestReturn_read(p, actor, id) /\ borrowings[id].user_id # actor)
         => /\ pc'[p] = "done"
            /\ loc'[p].result = "NotOwner"
            /\ borrowings' = borrowings]_vars

\* --------------------------------------------------------------- C14
\* C14: requestReturn takes a loan to pending_return from active only: the
\* borrower's call on a loan that is not active ends with InvalidState, and
\* so does a call whose loan stopped being active between its read and its
\* write; in both cases the loan stays as it is.
C14_RequestOnlyFromActive ==
  [][\A p \in Procs :
       /\ \A actor \in Users, id \in DOMAIN borrowings :
            (/\ requestReturn_read(p, actor, id)
             /\ borrowings[id].user_id = actor
             /\ borrowings[id].status # "active")
              => /\ pc'[p] = "done"
                 /\ loc'[p].result = "InvalidState"
                 /\ borrowings' = borrowings
       /\ (pc[p] = "rr_write" /\ pc'[p] # "rr_write")
            => IF borrowings[loc[p].id].status = "active"
               THEN borrowings'[loc[p].id].status = "pending_return"
               ELSE /\ loc'[p].result = "InvalidState"
                    /\ borrowings' = borrowings]_vars

\* the rows the sweep is to mark at this instant
PastDue == {i \in DOMAIN borrowings :
              borrowings[i].status = "active" /\ borrowings[i].due_date < now}

\* session p makes a step of the sweep's update loop
SweepUpdates(p) == pc[p] = "uo_update" /\ loc'[p] # loc[p]

\* --------------------------------------------------------------- C15
\* C15: a sweep that runs alone, with no storage failure, marks exactly the
\* loans that are active and past due when it starts: one that ends at once
\* leaves no such loan behind, one that goes on has them all on its list,
\* and each pass of its loop writes overdue and the fine to one listed loan
\* and changes nothing else.
C15_SweepMarksPastDue ==
  [][\A p \in Procs :
       /\ (/\ pc[p] = "idle" /\ pc'[p] = "done"
           /\ loc'[p].op = "updateOverdueBorrowings"
           /\ faults' = faults)
            => PastDue = {}
       /\ (pc[p] = "idle" /\ pc'[p] = "uo_update")
            => {u.id : u \in loc'[p].upd} = PastDue
       /\ (SweepUpdates(p) /\ faults' = faults)
            => /\ \E u \in loc[p].upd :
                    borrowings' = [borrowings EXCEPT
                                     ![u.id].status = "overdue",
                                     ![u.id].fine_amount = u.fine_amount]
               /\ books' = books]_vars

\* --------------------------------------------------------------- C16
\* C16: a sweep started when no active loan is past due ends at once and
\* changes no loan and no count, and no pass of a sweep's loop changes a
\* loan that is not active or a book's count.
C16_SweepIdempotent ==
  [][\A p \in Procs :
       /\ \A actor \in Users :
            (updateOverdueBorrowings_select(p, actor) /\ PastDue = {})
              => /\ pc'[p] = "done"
                 /\ borrowings' = borrowings
                 /\ books' = books
       /\ SweepUpdates(p)
            => /\ \A i \in DOMAIN borrowings :
                    borrowings[i].status # "active" => borrowings'[i] = borrowings[i]
               /\ books' = books]_vars

\* a sweep has ended while a loan marked overdue earlier keeps the fine of
\* the day it was marked
C16_Witness ==
  \E p \in Procs, i \in DOMAIN borrowings :
    /\ pc[p] = "done"
    /\ loc[p].op = "updateOverdueBorrowings"
    /\ loc[p].result = "ok"
    /\ borrowings[i].status = "overdue"
    /\ borrowings[i].fine_amount < calculateFine(borrowings[i].due_date)
    /\ PastDue = {}

\* --------------------------------------------------------------- C17
\* C17: the fine the sweep computes for a loan, and the fine approveReturn
\* stores with return_date, is 50 cents for every whole day from due_date
\* to the instant of the computation, and zero when that instant is not
\* past due_date; for a loan due three days before it is 150 cents.
C17_FineOf(due, at) ==
  IF at > due THEN ((at - due) \div TicksPerDay) * 50 ELSE 0

C17_FineFormula ==
  [][\A p \in Procs :
       /\ (pc[p] = "idle" /\ pc'[p] = "uo_update")
            => \A u \in loc'[p].upd :
                 /\ u.fine_amount = C17_FineOf(borrowings[u.id].due_date, now)
                 /\ (now - borrowings[u.id].due_date = 3 * TicksPerDay)
                      => u.fine_amount = 150
       /\ SweepUpdates(p)
            => \A i \in DOMAIN borrowings :
                 borrowings'[i] # borrowings[i]
                   => \E u \in loc[p].upd :
                        u.id = i /\ borrowings'[i].fine_amount = u.fine_amount
       /\ (pc[p] = "ar_update" /\ pc'[p] = "ar_book")
            => LET r == borrowings'[loc[p].id]
               IN r.fine_amount = C17_FineOf(r.due_date, r.return_date)]_vars

\* a loan marked overdue three days after its due date carries 150 cents
C17_Witness ==
  \E i \in DOMAIN borrowings :
    /\ borrowings[i].status = "overdue"
    /\ now - borrowings[i].due_date = 3 * TicksPerDay
    /\ borrowings[i].fine_amount = 150

\* --------------------------------------------------------------- C18
\* C18: the fine stored on a loan that is not returned never decreases.
C18_FineNeverDecreases ==
  [][\A i \in DOMAIN borrowings :
       (borrowings[i].status # "returned" /\ borrowings'[i].status # "returned")
         => borrowings'[i].fine_amount >= borrowings[i].fine_amount]_vars

\* --------------------------------------------------------------- C19
\* C19: a new loan is active, and the only changes of a loan's status are
\* active -> pending_return, active -> overdue and active, pending_return
\* or overdue -> returned.
C19_StatusChanges ==
  [][/\ \A i \in DOMAIN borrowings :
          \/ borrowings'[i].status = borrowings[i].status
          \/ borrowings[i].status = "active"
               /\ borrowings'[i].status \in {"pending_return", "overdue"}
          \/ borrowings[i].status \in Outstanding
               /\ borrowings'[i].status = "returned"
     /\ \A i \in (DOMAIN borrowings') \ (DOMAIN borrowings) :
          borrowings'[i].status = "active"]_vars

\* --------------------------------------------------------------- C20
\* C20: while all copies of a book are out, createLoan for it ends with
\* ItemUnavailable; staff's approveReturn of one of its outstanding loans
\* is accepted and ends with the loan returned and one more copy
\* available; a createLoan made once a copy is free is accepted.
C20_LendAgainAfterReturn ==
  [][\A p \in Procs :
       /\ \A bk \in Books :
            (CreateLoanCall(p, bk) /\ books[bk].available_copies = 0)
              => loc'[p].result = "ItemUnavailable"
       /\ \A actor \in Admins, id \in DOMAIN borrowings :
            (/\ approveReturn_read(p, "approveReturn", actor, id)
             /\ borrowings[id].status \in Outstanding
             /\ books[borrowings[id].book_id].available_copies = 0)
              => pc'[p] = "ar_update"
       /\ (/\ pc[p] = "ar_book" /\ pc'[p] = "done" /\ faults' = 0
           /\ loc[p].pre = 0)
            => /\ borrowings'[loc[p].id].status = "returned"
               /\ books'[loc[p].book].available_copies = 1
       /\ \A bk \in Books :
            (/\ CreateLoanCall(p, bk) /\ faults = 0
             /\ books[bk].available_copies > 0
             /\ OutstandingCount(bk) < books[bk].total_copies)
              => pc'[p] \in {"bb_insert", "cb_insert"}]_vars

\* ---------------------------------------------------------------- C21
\* C21: loan records are never deleted: a row of borrowings that exists
\* before a step exists after it, for the same book and borrower, whatever
\* the step is (a loan operation or a catalog operation).
C21_LoansAreKept ==
  [][\A i \in DOMAIN borrowings :
       /\ i \in DOMAIN borrowings'
       /\ borrowings'[i].book_id = borrowings[i].book_id
       /\ borrowings'[i].user_id = borrowings[i].user_id]_vars

\* ---------------------------------------------------------------- C22
\* C22: the status update and the copy release of approveReturn are one
\* unit: when a write of approveReturn fails (the update of the row with its
\* trigger, or the update of the book's count), the call reports a failure,
\* and the loan is not left returned with available_copies as it was when
\* the call started.
C22_ReturnIsOneUnit ==
  [][\A p \in Procs :
       (/\ pc[p] \in {"ar_update", "ar_book"}
        /\ faults' # faults
        /\ pc'[p] = "done")
         => /\ loc'[p].result \notin {"ok", "none"}
            /\ ~(/\ borrowings'[loc[p].id].status = "returned"
                 /\ books'[loc[p].book].available_copies = loc[p].pre)]_vars

\* ---------------------------------------------------------------- C23
\* C23: copiesOnLoan (total_copies - available_copies) of a book changes
\* only in the reserve step of a createLoan call and in the release step of
\* an approveReturn/returnBook call; every other step, a catalog update of
\* the book included, leaves it as it was.
C23_OnlyReserveAndRelease ==
  [][\A bk \in DOMAIN books \cap DOMAIN books' :
       (books'[bk].total_copies - books'[bk].available_copies
          # books[bk].total_copies - books[bk].available_copies)
         => \E p \in Procs :
              /\ pc[p] \in {"bb_insert", "bb_write", "cb_insert", "cb_write",
                            "ar_update", "ar_book"}
              /\ pc'[p] # pc[p]]_vars

C25_ReleaseFloored ==
  [][\A p \in Procs :
       (/\ pc[p] \in {"ar_update", "ar_book"}
        /\ pc'[p] # pc[p])
         => LET bk == loc[p].book
            IN /\ books'[bk].available_copies <= books'[bk].total_copies
               /\ (books[bk].available_copies = books[bk].total_copies)
                    => books'[bk] = books[bk]]_vars

\* ---------------------------------------------------------------- C26
\* C26: requestReturn and updateOverdueBorrowings only update loan
\* statuses: no step of either call, whether the call succeeds or fails,
\* changes total_copies or available_copies of any book.
C26_StatusUpdatesOnly ==
  [][\A p \in Procs :
       (/\ \/ pc[p] \in {"rr_write", "uo_update"}
           \/ /\ pc[p] = "idle"
              /\ loc'[p].op \in {"requestReturn", "updateOverdueBorrowings"}
        /\ (pc'[p] # pc[p] \/ loc'[p] # loc[p]))
         => books' = books]_vars

C28_Conservation ==
  (\A p \in Procs : pc[p] \in {"idle", "done"})
    => \A bk \in Books :
         books[bk].available_copies + OutstandingCount(bk) = books[bk].total_copies

\* ---------------------------------------------------------------- C29
\* C29: in every reachable state, interleaved calls on one loan included, a
\* loan's return_date is set if and only if its status is returned.
C29_ReturnDateIffReturned ==
  \A i \in DOMAIN borrowings :
    (borrowings[i].return_date # NULL) <=> (borrowings[i].status = "returned")

\* ---------------------------------------------------------------- C30
\* C30: no outstanding status is a dead end: in every reachable state in
\* which no call is in progress, every loan in status active,
\* pending_return or overdue has a way on towards returned: a requestReturn
\* by some user or an approveReturn/returnBook by some user is accepted for
\* it (passes the handler's checks and goes on to its write).
C30_NoDeadEnd ==
  (\A p \in Procs : pc[p] = "idle")
    => \A i \in DOMAIN borrowings :
         borrowings[i].status \in Outstanding
           => \E p \in Procs :
                \/ ENABLED (\E actor \in Users :
                              /\ requestReturn_read(p, actor, i)
                              /\ pc'[p] = "rr_write")
                \/ ENABLED (\E actor \in Users, op \in ReturnOps :
                              /\ approveReturn_read(p, op, actor, i)
                              /\ pc'[p] = "ar_update")

====
